---- MODULE Spec2Model ----
(***************************************************************************)
(* SuiteQL proxy: the FastAPI application of backend/main.py (api/main.py   *)
(* carries the same client and the same health, config and query handlers)  *)
(* and the serverless handlers of api/*.py.                                 *)
(*                                                                          *)
(* Strings are sequences of tokens.  A credential that is None (variable    *)
(* unset) and one that is "" are both the empty sequence: the code only     *)
(* ever tests them for truthiness.  An error message is the sequence of     *)
(* the tokens it contains, so `"401" in error_msg` is token membership.     *)
(*                                                                          *)
(* The FastAPI handlers are coroutines on one event loop: a handler runs    *)
(* without interruption up to its await of the outbound call and again      *)
(* from the vendor's answer to its response, so each of the two awaiting    *)
(* handlers is a begin action and an end action; every other handler has    *)
(* no await and is one action.  The serverless handlers are synchronous.    *)
(***************************************************************************)
EXTENDS Integers, Sequences, FiniteSets, TLC

VARIABLES env, netsuite_client, pending, resp, lastCfg, lastOp

vars == <<env, netsuite_client, pending, resp, lastCfg, lastOp>>

(* Number of requests of the FastAPI application that may await the vendor
   at the same time. *)
MaxInflight == 1

Slots == 1..MaxInflight

Fields == {"account_id", "consumer_key", "consumer_secret", "token_id", "token_secret"}

SecretFields == {"consumer_key", "consumer_secret", "token_id", "token_secret"}

(* ---------------------------------------------------------------------- *)
(* Strings                                                                 *)
(* ---------------------------------------------------------------------- *)

Truthy(s) == s # <<>>

Contains(msg, tok) == \E i \in 1..Len(msg) : msg[i] = tok

IsSpace(c) == c = " "

RECURSIVE LStrip(_)
LStrip(s) == IF s # <<>> /\ IsSpace(Head(s)) THEN LStrip(Tail(s)) ELSE s

RECURSIVE RStrip(_)
RStrip(s) ==
    IF s # <<>> /\ IsSpace(s[Len(s)]) THEN RStrip(SubSeq(s, 1, Len(s) - 1)) ELSE s

Strip(s) == RStrip(LStrip(s))

(* ---------------------------------------------------------------------- *)
(* Credential sets                                                         *)
(* ---------------------------------------------------------------------- *)

Creds(a, ck, cs, ti, ts) ==
    [account_id |-> a, consumer_key |-> ck, consumer_secret |-> cs,
     token_id |-> ti, token_secret |-> ts]

NoCreds == Creds(<<>>, <<>>, <<>>, <<>>, <<>>)

AllSet(c) == \A f \in Fields : Truthy(c[f])

(* The environments a process may be started in. *)
EnvChoices ==
    { Creds(<<"E", "1">>, <<"e", "k">>, <<"e", "s">>, <<"e", "t">>, <<"e", "x">>),
      Creds(<<"E", "1">>, <<>>, <<>>, <<>>, <<>>),
      NoCreds }

(* The environments the serverless handlers may be deployed with. *)
ApiEnvChoices ==
    EnvChoices \cup
    { Creds(<<"E", "1">>, <<"e", "k">>, <<"e", "s">>, <<"e", "t">>, <<>>),
      Creds(<<"T", "_", "S", "B", "1">>, <<"f", "k">>, <<"f", "s">>, <<"f", "t">>, <<"f", "x">>) }

(* The bodies a client may send to POST /config. *)
ConfigBodies ==
    { Creds(<<"A", "1">>, <<"k", "1">>, <<"s", "1">>, <<"t", "1">>, <<"x", "1">>),
      Creds(<<"A", "1">>, <<"k", "2">>, <<"s", "2">>, <<"t", "2">>, <<"x", "2">>),
      Creds(<<"A", "1">>, <<>>, <<"s", "1">>, <<"t", "1">>, <<"x", "1">>),
      Creds(<<>>, <<"k", "1">>, <<"s", "1">>, <<"t", "1">>, <<"x", "1">>) }

(* The query strings and parameter mappings a client may send. *)
Queries == { <<>>, <<" ">>, <<" ", "q", " ">> }

NoneParams == [none |-> TRUE, kv |-> {}]

Params == { NoneParams, [none |-> FALSE, kv |-> {}], [none |-> FALSE, kv |-> {<<"id", 1>>}] }

ParamsTruthy(p) == ~p.none /\ p.kv # {}

(* ---------------------------------------------------------------------- *)
(* The vendor                                                              *)
(* ---------------------------------------------------------------------- *)

Ok(body) == [kind |-> "ok", status |-> 200, text |-> body]

Http(status, text) == [kind |-> "http", status |-> status, text |-> text]

Transport(kind, text) == [kind |-> kind, status |-> 0, text |-> text]

(* What the vendor, or the transport, may answer to one outbound call. *)
VendorOutcomes ==
    { Ok(<<"items", "[]">>),
      Http(401, <<"Unauthorized">>),
      Http(403, <<"Forbidden">>),
      Http(403, <<"INVALID_LOGIN">>),
      Http(404, <<"not", "found">>),
      Http(500, <<"error", "at", "row", "401">>),
      Transport("timeout", <<"timed", "out">>) }

StatusTok(s) ==
    CASE s = 400 -> "400" [] s = 401 -> "401" [] s = 403 -> "403"
      [] s = 404 -> "404" [] s = 500 -> "500" [] OTHER -> "200"

(* str(e) of the exception the HTTP client raises for a failed call: the
   status of a rejected call is part of its text. *)
ErrorStr(o) ==
    IF o.kind = "http" THEN <<"HTTP", StatusTok(o.status)>> \o o.text ELSE o.text

(* ---------------------------------------------------------------------- *)
(* backend/main.py: NetSuiteClient                                         *)
(* ---------------------------------------------------------------------- *)

(* The signing context NetSuite(Config(account, TokenAuth(...))) caches. *)
Config(c) ==
    [account |-> c.account_id,
     auth |-> [consumer_key |-> c.consumer_key, consumer_secret |-> c.consumer_secret,
               token_id |-> c.token_id, token_secret |-> c.token_secret]]

NoClient == [exists |-> FALSE, creds |-> NoCreds, netsuite |-> Config(NoCreds)]

(* The length the validator expects of each of the four secrets, and the
   least length of an account id. *)
TokenLength == 64

MinAccountLength == 5

(* An issue string of the validator: the field it is about, what is wrong,
   and the length the message reports. *)
Issue(field, kind, got) == [field |-> field, kind |-> kind, got |-> got]

(* len(s) if s else 0 *)
LenOrZero(s) == IF Truthy(s) THEN Len(s) ELSE 0

(* A validator that tests the length of token_id before looking for "@". *)
NetSuiteClient_validate_credentials_length_first(c) ==
    LET account == IF ~Truthy(c.account_id) \/ Len(c.account_id) < MinAccountLength
                   THEN <<Issue("account_id", "too_short", 0)>> ELSE <<>>
        key == IF ~Truthy(c.consumer_key) \/ Len(c.consumer_key) # TokenLength
               THEN <<Issue("consumer_key", "length", LenOrZero(c.consumer_key))>> ELSE <<>>
        secret == IF ~Truthy(c.consumer_secret) \/ Len(c.consumer_secret) # TokenLength
                  THEN <<Issue("consumer_secret", "length", LenOrZero(c.consumer_secret))>>
                  ELSE <<>>
        token == IF ~Truthy(c.token_id) \/ Len(c.token_id) # TokenLength
                 THEN <<Issue("token_id", "length", LenOrZero(c.token_id))>>
                 ELSE IF Contains(c.token_id, "@")
                 THEN <<Issue("token_id", "email", 0), Issue("token_id", "to_fix", 0)>>
                 ELSE <<>>
        tsecret == IF ~Truthy(c.token_secret) \/ Len(c.token_secret) # TokenLength
                   THEN <<Issue("token_secret", "length", LenOrZero(c.token_secret))>>
                   ELSE <<>>
        issues == account \o key \o secret \o token \o tsecret
    IN  [raised |-> FALSE, result |-> issues = <<>>, issues |-> issues]

(* A validator that raises when it finds an issue. *)
NetSuiteClient_validate_credentials_raising(c) ==
    LET bad == \/ ~Truthy(c.account_id) \/ Len(c.account_id) < MinAccountLength
               \/ \E f \in SecretFields : ~Truthy(c[f]) \/ Len(c[f]) # TokenLength
               \/ Contains(c.token_id, "@")
    IN  [raised |-> bad, result |-> ~bad, issues |-> <<>>]

(* NetSuiteClient._validate_credentials: the issues it collects, in the
   order it appends them, and the boolean it returns; it never raises. *)
NetSuiteClient_validate_credentials(c) ==
    LET account == IF ~Truthy(c.account_id) \/ Len(c.account_id) < MinAccountLength
                   THEN <<Issue("account_id", "too_short", 0)>> ELSE <<>>
        key == IF ~Truthy(c.consumer_key) \/ Len(c.consumer_key) # TokenLength
               THEN <<Issue("consumer_key", "length", LenOrZero(c.consumer_key))>> ELSE <<>>
        secret == IF ~Truthy(c.consumer_secret) \/ Len(c.consumer_secret) # TokenLength
                  THEN <<Issue("consumer_secret", "length", LenOrZero(c.consumer_secret))>>
                  ELSE <<>>
        token == IF Truthy(c.token_id) /\ Contains(c.token_id, "@")
                 THEN <<Issue("token_id", "email", 0), Issue("token_id", "to_fix", 0)>>
                 ELSE IF ~Truthy(c.token_id) \/ Len(c.token_id) # TokenLength
                 THEN <<Issue("token_id", "length", LenOrZero(c.token_id))>>
                 ELSE <<>>
        tsecret == IF ~Truthy(c.token_secret) \/ Len(c.token_secret) # TokenLength
                   THEN <<Issue("token_secret", "length", LenOrZero(c.token_secret))>>
                   ELSE <<>>
        issues == account \o key \o secret \o token \o tsecret
    IN  [raised |-> FALSE, result |-> issues = <<>>, issues |-> issues]

(* A constructor that takes its arguments as they are, without the
   environment. *)
NetSuiteClient_init_arguments_only(req, e) ==
    LET c == [f \in Fields |-> req[f]]
    IN  IF ~AllSet(c) \/ NetSuiteClient_validate_credentials(c).raised
        THEN [raised |-> TRUE, client |-> NoClient]
        ELSE [raised |-> FALSE,
              client |-> [exists |-> TRUE, creds |-> c, netsuite |-> Config(c)]]

(* NetSuiteClient.__init__: each argument, or the environment when the
   argument is falsy; ValueError when a field is still missing; the formats
   are then validated, and the signing context is built. *)
NetSuiteClient_init(req, e) ==
    LET c == [f \in Fields |-> IF Truthy(req[f]) THEN req[f] ELSE e[f]]
    IN  IF ~AllSet(c) \/ NetSuiteClient_validate_credentials(c).raised
        THEN [raised |-> TRUE, client |-> NoClient]
        ELSE [raised |-> FALSE,
              client |-> [exists |-> TRUE, creds |-> c, netsuite |-> Config(c)]]

(* NetSuiteClient.update_config: the five fields are overwritten and the
   cached context rebuilt, whatever the values. *)
NetSuiteClient_update_config(nc, req) ==
    [exists |-> TRUE,
     creds |-> [f \in Fields |-> req[f]],
     netsuite |-> Config([f \in Fields |-> req[f]])]

(* Module initialisation: NetSuiteClient() or None. *)
Startup(e) == NetSuiteClient_init(NoCreds, e).client

(* A client that repeats the call: two outbound calls for one request. *)
NetSuiteClient_execute_suiteql_calls_retry(nc, query, parameters) ==
    LET call == [endpoint |-> "/query/v1/suiteql",
                 prefer |-> "transient",
                 q |-> query,
                 has_params |-> ParamsTruthy(parameters),
                 params |-> IF ParamsTruthy(parameters) THEN parameters.kv ELSE {},
                 signed_with |-> nc.netsuite]
    IN  <<call, call>>

(* The outbound calls of one NetSuiteClient.execute_suiteql, in order. *)
NetSuiteClient_execute_suiteql_calls(nc, query, parameters) ==
    << [endpoint |-> "/query/v1/suiteql",
        prefer |-> "transient",
        q |-> query,
        has_params |-> ParamsTruthy(parameters),
        params |-> IF ParamsTruthy(parameters) THEN parameters.kv ELSE {},
        signed_with |-> nc.netsuite] >>

AuthDetail == <<"NetSuite", "authentication", "failed">>

DeniedDetail == <<"NetSuite", "access", "denied">>

(* A client that tests the permission markers before the authentication
   markers. *)
NetSuiteClient_execute_suiteql_permission_first(o) ==
    IF o.kind = "ok"
    THEN [raised |-> FALSE, status |-> 200, data |-> o.text, detail |-> <<>>]
    ELSE LET error_msg == ErrorStr(o)
         IN  IF Contains(error_msg, "403") \/ Contains(error_msg, "Forbidden")
             THEN [raised |-> TRUE, status |-> 403, data |-> <<>>, detail |-> DeniedDetail]
             ELSE IF Contains(error_msg, "401") \/ Contains(error_msg, "INVALID_LOGIN")
             THEN [raised |-> TRUE, status |-> 401, data |-> <<>>, detail |-> AuthDetail]
             ELSE [raised |-> TRUE, status |-> 500, data |-> <<>>,
                   detail |-> <<"NetSuite", "API", "error:">> \o error_msg]

(* A client that answers every other failure with a fixed text. *)
NetSuiteClient_execute_suiteql_fixed_text(o) ==
    IF o.kind = "ok"
    THEN [raised |-> FALSE, status |-> 200, data |-> o.text, detail |-> <<>>]
    ELSE LET error_msg == ErrorStr(o)
         IN  IF Contains(error_msg, "401") \/ Contains(error_msg, "INVALID_LOGIN")
             THEN [raised |-> TRUE, status |-> 401, data |-> <<>>, detail |-> AuthDetail]
             ELSE IF Contains(error_msg, "403") \/ Contains(error_msg, "Forbidden")
             THEN [raised |-> TRUE, status |-> 403, data |-> <<>>, detail |-> DeniedDetail]
             ELSE [raised |-> TRUE, status |-> 500, data |-> <<>>,
                   detail |-> <<"NetSuite", "API", "error">>]

(* NetSuiteClient.execute_suiteql from the vendor's answer on: the response
   is returned, a failure is classified by its message and re-raised as an
   HTTPException. *)
NetSuiteClient_execute_suiteql(o) ==
    IF o.kind = "ok"
    THEN [raised |-> FALSE, status |-> 200, data |-> o.text, detail |-> <<>>]
    ELSE LET error_msg == ErrorStr(o)
         IN  IF Contains(error_msg, "401") \/ Contains(error_msg, "INVALID_LOGIN")
             THEN [raised |-> TRUE, status |-> 401, data |-> <<>>, detail |-> AuthDetail]
             ELSE IF Contains(error_msg, "403") \/ Contains(error_msg, "Forbidden")
             THEN [raised |-> TRUE, status |-> 403, data |-> <<>>, detail |-> DeniedDetail]
             ELSE [raised |-> TRUE, status |-> 500, data |-> <<>>,
                   detail |-> <<"NetSuite", "API", "error:">> \o error_msg]

(* str(e) of an HTTPException. *)
HTTPExceptionStr(r) == <<StatusTok(r.status), ":">> \o r.detail

(* NetSuiteClient.test_connection from the vendor's answer on. *)
NetSuiteClient_test_connection(o) ==
    LET r == NetSuiteClient_execute_suiteql(o)
    IN  IF r.raised
        THEN [status |-> "failed", error |-> HTTPExceptionStr(r)]
        ELSE [status |-> "success", error |-> <<>>]

test_query == <<"SELECT", " ", "id", " ", "FROM", " ", "Transaction">>

(* ---------------------------------------------------------------------- *)
(* backend/main.py: the handlers as functions of what they read            *)
(* ---------------------------------------------------------------------- *)

(* The credential set a request is served with. *)
Effective(nc, e) == IF nc.exists THEN nc.creds ELSE e

health_check(nc) == [status |-> "healthy", netsuite_configured |-> nc.exists]

Placeholder == <<"*", "*", "*", "*", "*", "*", "*", "*">>

Masked(s) == IF Truthy(s) THEN Placeholder ELSE <<>>

(* A get_current_config that shows the head of each secret, as the
   debug preview does. *)
get_current_config_preview(nc) ==
    IF ~nc.exists
    THEN [configured |-> FALSE]
    ELSE [configured |-> TRUE,
          account_id |-> nc.creds.account_id,
          consumer_key |-> SubSeq(nc.creds.consumer_key, 1, 1) \o <<"...">>,
          consumer_secret |-> SubSeq(nc.creds.consumer_secret, 1, 1) \o <<"...">>,
          token_id |-> SubSeq(nc.creds.token_id, 1, 1) \o <<"...">>,
          token_secret |-> SubSeq(nc.creds.token_secret, 1, 1) \o <<"...">>]

get_current_config(nc) ==
    IF ~nc.exists
    THEN [configured |-> FALSE]
    ELSE [configured |-> TRUE,
          account_id |-> nc.creds.account_id,
          consumer_key |-> Masked(nc.creds.consumer_key),
          consumer_secret |-> Masked(nc.creds.consumer_secret),
          token_id |-> Masked(nc.creds.token_id),
          token_secret |-> Masked(nc.creds.token_secret)]

(* An update_config that discards the client when the body has an empty
   field. *)
update_config_discarding(nc, e, req) ==
    IF nc.exists
    THEN IF AllSet(req)
         THEN [status |-> 200, client |-> NetSuiteClient_update_config(nc, req),
               calls |-> <<>>]
         ELSE [status |-> 400, client |-> NoClient, calls |-> <<>>]
    ELSE LET r == NetSuiteClient_init(req, e)
         IN  IF r.raised
             THEN [status |-> 400, client |-> nc, calls |-> <<>>]
             ELSE [status |-> 200, client |-> r.client, calls |-> <<>>]

(* An update_config that probes the vendor with the new credentials before
   it answers. *)
update_config_verifying(nc, e, req) ==
    IF nc.exists
    THEN [status |-> 200, client |-> NetSuiteClient_update_config(nc, req),
          calls |-> NetSuiteClient_execute_suiteql_calls(
                        NetSuiteClient_update_config(nc, req), test_query, NoneParams)]
    ELSE LET r == NetSuiteClient_init(req, e)
         IN  IF r.raised
             THEN [status |-> 400, client |-> nc, calls |-> <<>>]
             ELSE [status |-> 200, client |-> r.client,
                   calls |-> NetSuiteClient_execute_suiteql_calls(r.client, test_query,
                                                                  NoneParams)]

(* update_config: the existing client is updated in place, or a client is
   constructed; any exception is answered with 400.  No outbound call is
   made on either path. *)
update_config(nc, e, req) ==
    IF nc.exists
    THEN [status |-> 200, client |-> NetSuiteClient_update_config(nc, req), calls |-> <<>>]
    ELSE LET r == NetSuiteClient_init(req, e)
         IN  IF r.raised
             THEN [status |-> 400, client |-> nc, calls |-> <<>>]
             ELSE [status |-> 200, client |-> r.client, calls |-> <<>>]

(* An execute_suiteql that tests the query for emptiness without stripping. *)
execute_suiteql_pre_nostrip(nc, query, parameters) ==
    IF ~nc.exists
    THEN [go |-> FALSE, status |-> 500, detail |-> <<"NetSuite", "client", "not", "configured">>,
          calls |-> <<>>]
    ELSE IF ~Truthy(query)
    THEN [go |-> FALSE, status |-> 400, detail |-> <<"Query", "cannot", "be", "empty">>,
          calls |-> <<>>]
    ELSE [go |-> TRUE, status |-> 0, detail |-> <<>>,
          calls |-> NetSuiteClient_execute_suiteql_calls(nc, query, parameters)]

(* execute_suiteql up to the await: either the request is answered at once
   with `status`, or (go) the outbound calls are issued. *)
execute_suiteql_pre(nc, query, parameters) ==
    IF ~nc.exists
    THEN [go |-> FALSE, status |-> 500, detail |-> <<"NetSuite", "client", "not", "configured">>,
          calls |-> <<>>]
    ELSE IF ~Truthy(Strip(query))
    THEN [go |-> FALSE, status |-> 400, detail |-> <<"Query", "cannot", "be", "empty">>,
          calls |-> <<>>]
    ELSE [go |-> TRUE, status |-> 0, detail |-> <<>>,
          calls |-> NetSuiteClient_execute_suiteql_calls(nc, query, parameters)]

(* execute_suiteql from the vendor's answer on: the envelope, or the
   HTTPException of the client re-raised. *)
execute_suiteql_post(query, parameters, o) ==
    LET r == NetSuiteClient_execute_suiteql(o)
    IN  IF r.raised
        THEN [status |-> r.status, success |-> FALSE, detail |-> r.detail,
              data |-> <<>>, query |-> <<>>, parameters |-> NoneParams]
        ELSE [status |-> 200, success |-> TRUE, detail |-> <<>>,
              data |-> r.data, query |-> query, parameters |-> parameters]

(* test_auth up to the await. *)
test_auth_pre(nc) ==
    IF ~nc.exists
    THEN [go |-> FALSE, calls |-> <<>>]
    ELSE [go |-> TRUE, calls |-> NetSuiteClient_execute_suiteql_calls(nc, test_query, NoneParams)]

(* A test_auth that expects a status the client never returns. *)
test_auth_post_wrong_status(nc, o) ==
    LET result == NetSuiteClient_test_connection(o)
    IN  IF result.status = "ok"
        THEN [http |-> 200, status |-> "success", error |-> <<>>,
              account_id |-> nc.creds.account_id]
        ELSE [http |-> 200, status |-> "error", error |-> result.error,
              account_id |-> <<>>]

(* A test_auth that lets the HTTPException of a failed probe through. *)
test_auth_post_reraising(nc, o) ==
    LET r == NetSuiteClient_execute_suiteql(o)
    IN  IF ~r.raised
        THEN [http |-> 200, status |-> "success", error |-> <<>>,
              account_id |-> nc.creds.account_id]
        ELSE [http |-> r.status, status |-> "error", error |-> HTTPExceptionStr(r),
              account_id |-> <<>>]

(* test_auth from the vendor's answer on: every path returns a dictionary,
   so the HTTP status is 200. *)
test_auth_post(nc, o) ==
    LET result == NetSuiteClient_test_connection(o)
    IN  IF result.status = "success"
        THEN [http |-> 200, status |-> "success", error |-> <<>>,
              account_id |-> nc.creds.account_id]
        ELSE [http |-> 200, status |-> "error", error |-> result.error,
              account_id |-> <<>>]

(* An entry of the issues list of validate_credentials. *)
FormatIssue(field, kind) == [field |-> field, kind |-> kind]

(* An entry of the checks list of validate_credentials. *)
Check(item, status) == [item |-> item, status |-> status]

(* A length check with the comparison reversed: only shorter values pass. *)
LengthCheck_shorter(field, s) ==
    IF ~Truthy(s)
    THEN [checks |-> <<>>, issues |-> <<>>]
    ELSE IF Len(s) < TokenLength
    THEN [checks |-> <<Check(field, "ok")>>, issues |-> <<>>]
    ELSE [checks |-> <<Check(field, "bad")>>, issues |-> <<FormatIssue(field, "length")>>]

(* The entries validate_credentials adds for one secret that is expected to
   be TokenLength long; an empty value adds nothing. *)
LengthCheck(field, s) ==
    IF ~Truthy(s)
    THEN [checks |-> <<>>, issues |-> <<>>]
    ELSE IF Len(s) = TokenLength
    THEN [checks |-> <<Check(field, "ok")>>, issues |-> <<>>]
    ELSE [checks |-> <<Check(field, "bad")>>, issues |-> <<FormatIssue(field, "length")>>]

(* validate_credentials: the validator's result as `valid`, and the
   handler's own per-field issues and checks. *)
validate_credentials(nc) ==
    IF ~nc.exists
    THEN [configured |-> FALSE, valid |-> FALSE, issues |-> <<>>, checks |-> <<>>,
          troubleshooting |-> FALSE]
    ELSE LET validation_result == NetSuiteClient_validate_credentials(nc.creds).result
             account == IF ~Truthy(nc.creds.account_id)
                        THEN [checks |-> <<>>, issues |-> <<>>]
                        ELSE IF Len(nc.creds.account_id) >= MinAccountLength
                        THEN [checks |-> <<Check("account_id", "ok")>>, issues |-> <<>>]
                        ELSE [checks |-> <<Check("account_id", "bad")>>,
                              issues |-> <<FormatIssue("account_id", "format")>>]
             key == LengthCheck("consumer_key", nc.creds.consumer_key)
             secret == LengthCheck("consumer_secret", nc.creds.consumer_secret)
             token == IF Truthy(nc.creds.token_id) /\ Contains(nc.creds.token_id, "@")
                      THEN [checks |-> <<Check("token_id", "critical")>>,
                            issues |-> <<FormatIssue("token_id", "email")>>]
                      ELSE LengthCheck("token_id", nc.creds.token_id)
             tsecret == LengthCheck("token_secret", nc.creds.token_secret)
         IN  [configured |-> TRUE,
              valid |-> validation_result,
              issues |-> account.issues \o key.issues \o secret.issues \o token.issues
                         \o tsecret.issues,
              checks |-> account.checks \o key.checks \o secret.checks \o token.checks
                         \o tsecret.checks,
              troubleshooting |-> ~validation_result]

KeyPreviewHead == 8

SecretPreviewHead == 4

PreviewTail == 4

(* s[:n] and s[-n:] *)
SliceHead(s, n) == SubSeq(s, 1, IF n < Len(s) THEN n ELSE Len(s))

SliceTail(s, n) == SubSeq(s, IF n < Len(s) THEN Len(s) - n + 1 ELSE 1, Len(s))

Ellipsis == <<".", ".", ".">>

(* f"{s[:head]}...{s[-4:]}" if s else None; None is the empty sequence. *)
Preview(s, head) ==
    IF Truthy(s) THEN SliceHead(s, head) \o Ellipsis \o SliceTail(s, PreviewTail) ELSE <<>>

debug_auth(nc) ==
    IF ~nc.exists
    THEN [configured |-> FALSE]
    ELSE [configured |-> TRUE,
          account_id |-> nc.creds.account_id,
          consumer_key |-> Preview(nc.creds.consumer_key, KeyPreviewHead),
          consumer_secret |-> Preview(nc.creds.consumer_secret, SecretPreviewHead),
          token_id |-> Preview(nc.creds.token_id, KeyPreviewHead),
          token_secret |-> Preview(nc.creds.token_secret, SecretPreviewHead)]

(* get_sample_queries: the names of the static list it returns. *)
get_sample_queries ==
    [queries |-> <<"Customer List", "Recent Transactions", "Sales Orders", "Item List",
                   "Transaction with Customer Info">>]

(* ---------------------------------------------------------------------- *)
(* api/*.py: the serverless handlers, which read the environment           *)
(* ---------------------------------------------------------------------- *)

health_do_GET(e) == [status |-> "healthy", netsuite_configured |-> AllSet(e)]

config_do_GET(e) ==
    IF ~AllSet(e)
    THEN [configured |-> FALSE]
    ELSE [configured |-> TRUE,
          account_id |-> e.account_id,
          consumer_key |-> Masked(e.consumer_key),
          consumer_secret |-> Masked(e.consumer_secret),
          token_id |-> Masked(e.token_id),
          token_secret |-> Masked(e.token_secret)]

(* config.py do_POST: the body is not read and nothing is stored. *)
config_do_POST(e, req) == [status |-> 200, stored |-> e]

(* suiteql.py do_POST: one synchronous call; every exception is answered
   with 500 and its text. *)
suiteql_do_POST(e, q, parameters, o) ==
    IF ~AllSet(e)
    THEN [status |-> 500, success |-> FALSE,
          detail |-> <<"NetSuite", "credentials", "not", "configured">>,
          data |-> <<>>, query |-> <<>>, parameters |-> NoneParams, calls |-> <<>>]
    ELSE LET query == Strip(q)
         IN  IF ~Truthy(query)
             THEN [status |-> 400, success |-> FALSE,
                   detail |-> <<"Query", "cannot", "be", "empty">>,
                   data |-> <<>>, query |-> <<>>, parameters |-> NoneParams, calls |-> <<>>]
             ELSE LET call == [endpoint |-> "/query/v1/suiteql", prefer |-> "transient",
                               q |-> query, has_params |-> FALSE, params |-> {},
                               signed_with |-> Config(e)]
                  IN  IF o.kind = "ok"
                      THEN [status |-> 200, success |-> TRUE, detail |-> <<>>,
                            data |-> o.text, query |-> query, parameters |-> parameters,
                            calls |-> <<call>>]
                      ELSE [status |-> 500, success |-> FALSE, detail |-> ErrorStr(o),
                            data |-> <<>>, query |-> <<>>, parameters |-> NoneParams,
                            calls |-> <<call>>]

(* The request bodies a client may send to suiteql.py: no body at all (no
   Content-Length header), text that is not JSON, JSON that is not an object,
   an object without the key query, and an object with query and
   parameters. *)
QueryBodies ==
    { [shape |-> sh, query |-> <<>>, parameters |-> NoneParams] :
        sh \in {"missing", "malformed", "non_object", "no_query"} }
    \cup { [shape |-> "object", query |-> q, parameters |-> p] : q \in Queries, p \in Params }

(* suiteql.py do_POST from the request body on.  The body is read and parsed
   inside the try, so a missing Content-Length (int(None)), malformed JSON
   (json.loads) and a non-object (.get) are answered with 500 and the text of
   the exception; a missing key query reads as ''.  rest_api.post is called
   without await (line 54), while backend/main.py awaits the same method
   (main.py:186): where it is a coroutine function (awaitable) nothing is
   sent to the vendor, the envelope holds a coroutine object, 200 and the
   headers are sent, and json.dumps (line 77, outside the try) raises, so no
   body is written. *)
suiteql_do_POST_body(e, body, o, awaitable) ==
    LET failed(text) ==
            [status |-> 500, success |-> FALSE, detail |-> text, data |-> <<>>,
             query |-> <<>>, parameters |-> NoneParams, calls |-> <<>>, written |-> TRUE]
        r == suiteql_do_POST(e, body.query, body.parameters, o)
    IN  IF AllSet(e) /\ body.shape = "missing"
        THEN failed(<<"int()", "argument", "must", "be", "a", "string">>)
        ELSE IF AllSet(e) /\ body.shape = "malformed"
        THEN failed(<<"Expecting", "value">>)
        ELSE IF AllSet(e) /\ body.shape = "non_object"
        THEN failed(<<"'list'", "object", "has", "no", "attribute", "'get'">>)
        ELSE IF r.calls # <<>> /\ awaitable
        THEN [status |-> 200, success |-> TRUE, detail |-> <<>>, data |-> <<"<coroutine>">>,
              query |-> Strip(body.query), parameters |-> body.parameters, calls |-> <<>>,
              written |-> FALSE]
        ELSE [status |-> r.status, success |-> r.success, detail |-> r.detail,
              data |-> r.data, query |-> r.query, parameters |-> r.parameters,
              calls |-> r.calls, written |-> TRUE]

(* test-auth.py do_GET: the client object is built and no call is made. *)
test_auth_do_GET(e) ==
    IF ~AllSet(e)
    THEN [status |-> "error", error |-> <<"NetSuite", "credentials", "not", "configured">>,
          account_id |-> <<>>]
    ELSE [status |-> "success", error |-> <<>>, account_id |-> e.account_id]

(* ---------------------------------------------------------------------- *)
(* State                                                                   *)
(* ---------------------------------------------------------------------- *)

Idle == [h |-> "idle"]

NoOutcome == [kind |-> "none", status |-> 0, text |-> <<>>]

NoReq == [query |-> <<>>, parameters |-> NoneParams]

(* Whether the step before a test-auth request was an accepted POST /config,
   and the body of that request. *)
After == [ok |-> lastOp = "config_ok", cfg |-> IF lastOp = "config_ok" THEN lastCfg ELSE NoCreds]

NoAfter == [ok |-> FALSE, cfg |-> NoCreds]

(* No response: the last step answered no request. *)
NoResp ==
    [impl |-> "none", h |-> "none", status |-> 0, ncalls |-> 0, body |-> [none |-> TRUE],
     after |-> NoAfter,
     req |-> NoReq, outcome |-> NoOutcome]

(* The slot a request that starts to await the vendor takes. *)
FreeSlot(s) == pending[s] = Idle /\ \A t \in Slots : t < s => pending[t] # Idle

Resp(impl, h, status, ncalls, body, after, req, o) ==
    [impl |-> impl, h |-> h, status |-> status, ncalls |-> ncalls, body |-> body,
     after |-> after, req |-> req, outcome |-> o]

Init ==
    /\ env \in EnvChoices
    /\ netsuite_client = Startup(env)
    /\ pending = [s \in Slots |-> Idle]
    /\ resp = NoResp
    /\ lastCfg = NoCreds
    /\ lastOp = "other"

(* ---------------------------------------------------------------------- *)
(* Requests to the FastAPI application                                     *)
(* ---------------------------------------------------------------------- *)

GetHealth ==
    /\ resp' = Resp("backend", "health", 200, 0, health_check(netsuite_client),
                    NoAfter, NoReq, NoOutcome)
    /\ lastOp' = "other"
    /\ UNCHANGED <<env, netsuite_client, pending, lastCfg>>

GetConfig ==
    /\ resp' = Resp("backend", "get_config", 200, 0, get_current_config(netsuite_client),
                    NoAfter, NoReq, NoOutcome)
    /\ lastOp' = "other"
    /\ UNCHANGED <<env, netsuite_client, pending, lastCfg>>

PostConfig ==
    \E req \in ConfigBodies :
        LET r == update_config(netsuite_client, env, req)
        IN  /\ netsuite_client' = r.client
            /\ resp' = Resp("backend", "update_config", r.status, Len(r.calls),
                            [ok |-> r.status = 200], NoAfter, req, NoOutcome)
            /\ lastCfg' = IF r.status = 200 THEN req ELSE lastCfg
            /\ lastOp' = IF r.status = 200 THEN "config_ok" ELSE "other"
            /\ UNCHANGED <<env, pending>>

QueryBegin ==
    \E q \in Queries, p \in Params :
        LET pre == execute_suiteql_pre(netsuite_client, q, p)
        IN  /\ IF pre.go
               THEN /\ \E s \in Slots :
                         /\ FreeSlot(s)
                         /\ pending' = [pending EXCEPT ![s] =
                                [h |-> "query", query |-> q, parameters |-> p,
                                 calls |-> pre.calls,
                                 effective |-> Effective(netsuite_client, env),
                                 after |-> NoAfter]]
                    /\ resp' = NoResp
               ELSE /\ resp' = Resp("backend", "query", pre.status, Len(pre.calls),
                                    [success |-> FALSE, detail |-> pre.detail],
                                    NoAfter, [query |-> q, parameters |-> p], NoOutcome)
                    /\ UNCHANGED pending
            /\ lastOp' = "other"
            /\ UNCHANGED <<env, netsuite_client, lastCfg>>

QueryEnd ==
    \E s \in Slots, o \in VendorOutcomes :
        /\ pending[s].h = "query"
        /\ resp' = Resp("backend", "query", execute_suiteql_post(pending[s].query,
                                                pending[s].parameters, o).status,
                        Len(pending[s].calls),
                        execute_suiteql_post(pending[s].query, pending[s].parameters, o),
                        NoAfter,
                        [query |-> pending[s].query, parameters |-> pending[s].parameters], o)
        /\ pending' = [pending EXCEPT ![s] = Idle]
        /\ lastOp' = "other"
        /\ UNCHANGED <<env, netsuite_client, lastCfg>>

TestAuthBegin ==
    LET pre == test_auth_pre(netsuite_client)
    IN  /\ IF pre.go
           THEN /\ \E s \in Slots :
                     /\ FreeSlot(s)
                     /\ pending' = [pending EXCEPT ![s] =
                            [h |-> "test_auth", query |-> test_query, parameters |-> NoneParams,
                             calls |-> pre.calls,
                             effective |-> Effective(netsuite_client, env),
                             after |-> After]]
                /\ resp' = NoResp
           ELSE /\ resp' = Resp("backend", "test_auth", 200, Len(pre.calls),
                                [http |-> 200, status |-> "error",
                                 error |-> <<"NetSuite", "client", "not", "configured">>,
                                 account_id |-> <<>>],
                                After, NoReq, NoOutcome)
                /\ UNCHANGED pending
        /\ lastOp' = "other"
        /\ UNCHANGED <<env, netsuite_client, lastCfg>>

(* A test_auth that discards the client when the probe fails. *)
TestAuthEnd_discarding ==
    \E s \in Slots, o \in VendorOutcomes :
        /\ pending[s].h = "test_auth"
        /\ resp' = Resp("backend", "test_auth", test_auth_post(netsuite_client, o).http,
                        Len(pending[s].calls),
                        test_auth_post(netsuite_client, o), pending[s].after, NoReq, o)
        /\ pending' = [pending EXCEPT ![s] = Idle]
        /\ lastOp' = "other"
        /\ netsuite_client' = IF o.kind = "ok" THEN netsuite_client ELSE NoClient
        /\ UNCHANGED <<env, lastCfg>>

TestAuthEnd ==
    \E s \in Slots, o \in VendorOutcomes :
        /\ pending[s].h = "test_auth"
        /\ resp' = Resp("backend", "test_auth", test_auth_post(netsuite_client, o).http,
                        Len(pending[s].calls),
                        test_auth_post(netsuite_client, o), pending[s].after, NoReq, o)
        /\ pending' = [pending EXCEPT ![s] = Idle]
        /\ lastOp' = "other"
        /\ UNCHANGED <<env, netsuite_client, lastCfg>>

GetValidateCredentials ==
    /\ resp' = Resp("backend", "validate_credentials", 200, 0,
                    validate_credentials(netsuite_client), NoAfter, NoReq, NoOutcome)
    /\ lastOp' = "other"
    /\ UNCHANGED <<env, netsuite_client, pending, lastCfg>>

GetDebugAuth ==
    /\ resp' = Resp("backend", "debug_auth", 200, 0, debug_auth(netsuite_client),
                    NoAfter, NoReq, NoOutcome)
    /\ lastOp' = "other"
    /\ UNCHANGED <<env, netsuite_client, pending, lastCfg>>

GetSampleQueries ==
    /\ resp' = Resp("backend", "sample_queries", 200, 0, get_sample_queries,
                    NoAfter, NoReq, NoOutcome)
    /\ lastOp' = "other"
    /\ UNCHANGED <<env, netsuite_client, pending, lastCfg>>

(* ---------------------------------------------------------------------- *)
(* Requests to the serverless handlers                                     *)
(* ---------------------------------------------------------------------- *)

ApiHealth ==
    /\ resp' = Resp("api", "health", 200, 0, health_do_GET(env), NoAfter, NoReq, NoOutcome)
    /\ lastOp' = "other"
    /\ UNCHANGED <<env, netsuite_client, pending, lastCfg>>

ApiGetConfig ==
    /\ resp' = Resp("api", "get_config", 200, 0, config_do_GET(env), NoAfter, NoReq, NoOutcome)
    /\ lastOp' = "other"
    /\ UNCHANGED <<env, netsuite_client, pending, lastCfg>>

ApiPostConfig ==
    \E req \in ConfigBodies :
        /\ resp' = Resp("api", "update_config", config_do_POST(env, req).status, 0,
                        config_do_POST(env, req), NoAfter, req, NoOutcome)
        /\ lastOp' = "other"
        /\ UNCHANGED <<env, netsuite_client, pending, lastCfg>>

ApiQuery ==
    \E body \in QueryBodies, o \in VendorOutcomes, awaitable \in BOOLEAN :
        LET r == suiteql_do_POST_body(env, body, o, awaitable)
        IN  /\ resp' = Resp("api", "query", r.status, Len(r.calls), r, NoAfter, body,
                            IF r.calls = <<>> THEN NoOutcome ELSE o)
            /\ lastOp' = "other"
            /\ UNCHANGED <<env, netsuite_client, pending, lastCfg>>

ApiTestAuth ==
    /\ resp' = Resp("api", "test_auth", 200, 0, test_auth_do_GET(env), NoAfter, NoReq, NoOutcome)
    /\ lastOp' = "other"
    /\ UNCHANGED <<env, netsuite_client, pending, lastCfg>>

NextBackend ==
    \/ GetHealth
    \/ GetConfig
    \/ PostConfig
    \/ QueryBegin
    \/ QueryEnd
    \/ TestAuthBegin
    \/ TestAuthEnd
    \/ GetValidateCredentials
    \/ GetDebugAuth
    \/ GetSampleQueries

(* The FastAPI application. *)
Spec == Init /\ [][NextBackend]_vars

NextApi ==
    \/ ApiHealth
    \/ ApiGetConfig
    \/ ApiPostConfig
    \/ ApiQuery
    \/ ApiTestAuth

InitApi ==
    /\ env \in ApiEnvChoices
    /\ netsuite_client = NoClient
    /\ pending = [s \in Slots |-> Idle]
    /\ resp = NoResp
    /\ lastCfg = NoCreds
    /\ lastOp = "other"

(* The serverless deployment. *)
SpecApi == InitApi /\ [][NextApi]_vars

(* ---------------------------------------------------------------------- *)
(* The diagnostic handlers over credentials of realistic lengths           *)
(* ---------------------------------------------------------------------- *)

(* The string of n characters c. *)
Rep(c, n) == [i \in 1..n |-> c]

DiagAccountIds == { <<"A", "1">>, <<"A", "C", "C", "T", "1">> }

DiagConsumerKeys == { Rep("k", TokenLength), Rep("k", TokenLength - 1), <<"k", "1", "2">> }

DiagConsumerSecrets ==
    { Rep("s", TokenLength), <<"s", "1", "2", "3", "4", "5", "6", "7", "8">> }

DiagTokenIds ==
    { Rep("t", TokenLength),
      Rep("t", TokenLength - 1) \o <<"@">>,
      <<"u", "@", "x">>,
      Rep("t", KeyPreviewHead + PreviewTail + 1) }

DiagTokenSecrets == { Rep("x", TokenLength), <<"x", "1">>, <<>> }

(* The bodies a client may send to POST /config: every combination of a
   well-formed and several badly formed values of each field. *)
DiagConfigBodies ==
    { Creds(a, ck, cs, ti, ts) :
        a \in DiagAccountIds, ck \in DiagConsumerKeys, cs \in DiagConsumerSecrets,
        ti \in DiagTokenIds, ts \in DiagTokenSecrets }

DiagEnvChoices ==
    { NoCreds,
      Creds(<<"T", "_", "S", "B", "1">>, Rep("e", TokenLength), Rep("f", TokenLength),
            Rep("g", TokenLength), Rep("h", TokenLength)) }

InitDiag ==
    /\ env \in DiagEnvChoices
    /\ netsuite_client = Startup(env)
    /\ pending = [s \in Slots |-> Idle]
    /\ resp = NoResp
    /\ lastCfg = NoCreds
    /\ lastOp = "other"

PostConfigDiag ==
    \E req \in DiagConfigBodies :
        LET r == update_config(netsuite_client, env, req)
        IN  /\ netsuite_client' = r.client
            /\ resp' = Resp("backend", "update_config", r.status, Len(r.calls),
                            [ok |-> r.status = 200], NoAfter, req, NoOutcome)
            /\ lastCfg' = IF r.status = 200 THEN req ELSE lastCfg
            /\ lastOp' = IF r.status = 200 THEN "config_ok" ELSE "other"
            /\ UNCHANGED <<env, pending>>

NextDiag ==
    \/ PostConfigDiag
    \/ GetValidateCredentials
    \/ GetDebugAuth

(* The FastAPI application, configured and inspected through its diagnostic
   handlers. *)
SpecDiag == InitDiag /\ [][NextDiag]_vars

(* ---------------------------------------------------------------------- *)
(* main_old.py and alternative_client.py: the vendor host name             *)
(* ---------------------------------------------------------------------- *)

(* The longest account id the host-name specification draws. *)
MaxAccountLen == 3

(* The characters of an account id: upper and lower case letters, a digit,
   the underscore and the hyphen. *)
AccountChars == {"A", "S", "b", "1", "_", "-"}

HostAccountIds == UNION { [1..n -> AccountChars] : n \in 1..MaxAccountLen }

(* str.lower() on one character. *)
LowerChar(c) == CASE c = "A" -> "a" [] c = "S" -> "s" [] OTHER -> c

(* s.replace('_', '-') and s.lower() *)
Replace(s, from, to) == [i \in 1..Len(s) |-> IF s[i] = from THEN to ELSE s[i]]

Lower(s) == [i \in 1..Len(s) |-> LowerChar(s[i])]

(* A normalisation that replaces the underscores and keeps the case. *)
account_id_clean_keep_case(account_id) == Replace(account_id, "_", "-")

(* account_id.replace('_', '-').lower() *)
account_id_clean(account_id) == Lower(Replace(account_id, "_", "-"))

(* main_old.py execute_suiteql: the URL the query is posted to. *)
old_url(account_id) ==
    <<"https://">> \o account_id_clean(account_id)
    \o <<".suitetalk.api.netsuite.com", "/services/rest/query/v1/suiteql">>

(* alternative_client.py test_basic_auth: the endpoints derived from the
   account id. *)
endpoints_to_test(account_id) ==
    << <<"https://">> \o account_id_clean(account_id)
          \o <<".restlets.api.netsuite.com", "/app/site/hosting/restlet.nl">>,
       <<"https://">> \o account_id_clean(account_id)
          \o <<".suitetalk.api.netsuite.com", "/services/rest/record/v1/metadata-catalog">> >>

InitHost ==
    /\ env \in { Creds(a, <<"e", "k">>, <<"e", "s">>, <<"e", "t">>, <<"e", "x">>) :
                   a \in HostAccountIds }
    /\ netsuite_client = NoClient
    /\ pending = [s \in Slots |-> Idle]
    /\ resp = NoResp
    /\ lastCfg = NoCreds
    /\ lastOp = "other"

(* main_old.py: a query of the client built from the environment computes
   and logs its URL. *)
OldExecuteSuiteql ==
    /\ resp' = Resp("old", "query_url", 0, 0, [url |-> old_url(env.account_id)], NoAfter,
                    [account_id |-> env.account_id], NoOutcome)
    /\ lastOp' = "other"
    /\ UNCHANGED <<env, netsuite_client, pending, lastCfg>>

(* alternative_client.py: test_basic_auth of a client constructed with the
   account id of the environment. *)
TestBasicAuth ==
    /\ resp' = Resp("alternative", "test_basic_auth", 0, 0,
                    [endpoints |-> endpoints_to_test(env.account_id)], NoAfter,
                    [account_id |-> env.account_id], NoOutcome)
    /\ lastOp' = "other"
    /\ UNCHANGED <<env, netsuite_client, pending, lastCfg>>

NextHost ==
    \/ OldExecuteSuiteql
    \/ TestBasicAuth

(* The host-name derivation of the older client and the RESTlet client. *)
SpecHost == InitHost /\ [][NextHost]_vars

(* ---------------------------------------------------------------------- *)
(* Properties                                                              *)
(* ---------------------------------------------------------------------- *)

Blank(q) == ~Truthy(Strip(q))

Awaiting(h) == {s \in Slots : pending[s].h = h}

(* C1: whenever a field of the credential set in effect is empty, health
   reports netsuite_configured = false and a query is answered with the
   not-configured error (500) without an outbound call.  (As claimed; the
   application violates it.) *)
C1_MissingFieldNotConfigured ==
    /\ resp.impl = "backend" /\ resp.h = "health"
         /\ ~AllSet(Effective(netsuite_client, env))
       => ~resp.body.netsuite_configured
    /\ \A s \in Awaiting("query") : AllSet(pending[s].effective)

(* C2 as claimed: an empty or whitespace-only query is answered with 400 and
   no outbound call in every credential state. *)
C2_BlankQueryAlways400 ==
    resp.impl = "backend" /\ resp.h = "query" /\ Blank(resp.req.query)
    => resp.status = 400 /\ resp.ncalls = 0

(* C2 as amended: an empty or whitespace-only query never causes an outbound
   call; it is answered with 400 when the proxy is configured and with the
   not-configured error (500) when it is not, in the application and in the
   serverless handler alike. *)
C2_BlankQueryNoCall ==
    /\ resp.impl = "backend" /\ resp.h = "query" /\ Blank(resp.req.query)
       => /\ resp.ncalls = 0
          /\ resp.outcome = NoOutcome
          /\ resp.status = IF netsuite_client.exists THEN 400 ELSE 500
    /\ \A s \in Awaiting("query") : ~Blank(pending[s].query)
    /\ \A q \in {x \in Queries : Blank(x)}, p \in Params, o \in VendorOutcomes :
          LET r == suiteql_do_POST(env, q, p, o)
          IN  r.calls = <<>> /\ r.status = IF AllSet(env) THEN 400 ELSE 500

C2_Witness ==
    /\ resp.impl = "backend" /\ resp.h = "query"
    /\ resp.req.query = <<" ">>
    /\ netsuite_client.exists
    /\ resp.status = 400

(* C3: in every query handler a vendor 401 is answered with 401 and a vendor
   403 with 403.  (As claimed; the serverless handler violates it.) *)
C3_VendorStatusRelayed ==
    resp.h = "query" /\ resp.outcome.kind = "http" /\ resp.outcome.status \in {401, 403}
    => resp.status = resp.outcome.status

AuthRejection(o) ==
    (o.kind = "http" /\ o.status = 401) \/ Contains(o.text, "INVALID_LOGIN")

PermissionRejection(o) ==
    (o.kind = "http" /\ o.status = 403) \/ Contains(o.text, "Forbidden")

(* C4: a failure that is neither a 401 / INVALID_LOGIN rejection nor a
   403 / Forbidden rejection is answered with 500, whatever its text.  (As
   claimed; the application violates it.) *)
C4_OtherFailuresUpstream ==
    /\ resp.impl = "backend" /\ resp.h = "query"
    /\ resp.outcome.kind \in {"http", "timeout"}
    /\ ~AuthRejection(resp.outcome) /\ ~PermissionRejection(resp.outcome)
    => resp.status = 500

(* C5: on a vendor 200 with body B the query handler returns the envelope
   {success: true, data: B, query, parameters} whose query and parameters are
   exactly what the client submitted.  (As claimed; the serverless handler
   violates it.) *)
C5_EnvelopeVerbatim ==
    resp.h = "query" /\ resp.outcome.kind = "ok"
    => /\ resp.status = 200
       /\ resp.body.success
       /\ resp.body.data = resp.outcome.text
       /\ resp.body.query = resp.req.query
       /\ resp.body.parameters = resp.req.parameters

(* C6: an inbound query or test-auth request causes at most one outbound
   call, whatever the outcome of the call. *)
C6_AtMostOneCall ==
    /\ resp.ncalls <= 1
    /\ \A s \in Slots : pending[s] # Idle => Len(pending[s].calls) = 1
    /\ \A q \in Queries, p \in Params, o \in VendorOutcomes :
          Len(suiteql_do_POST(env, q, p, o).calls) <= 1

C6_Witness ==
    /\ resp.impl = "backend" /\ resp.h \in {"query", "test_auth"}
    /\ resp.outcome.kind \in {"http", "timeout"}
    /\ resp.ncalls = 1

(* C7: after an accepted POST /config, GET /config shows each of the four
   secrets as the fixed placeholder only.  (As claimed; the application
   violates it once an empty secret has been accepted.) *)
C7_SecretsShownAsPlaceholder ==
    /\ resp.impl = "backend" /\ resp.h = "get_config"
    /\ lastCfg # NoCreds /\ resp.body.configured
    => \A f \in SecretFields : resp.body[f] = Placeholder

(* C8 as claimed: GET /config shows every field, account_id included, only
   as presence plus the placeholder. *)
C8_AllFieldsMasked ==
    resp.impl = "backend" /\ resp.h = "get_config" /\ resp.body.configured
    => \A f \in Fields : resp.body[f] \in {Placeholder, <<>>}

(* C8 as amended: GET /config shows each of the four secrets only as
   presence (the placeholder when the stored value is non-empty, the empty
   string when it is empty) and returns the stored account_id in clear. *)
C8_SecretsMaskedAccountClear ==
    /\ resp.impl = "backend" /\ resp.h = "get_config"
       => /\ resp.body.configured = netsuite_client.exists
          /\ resp.body.configured
             => /\ \A f \in SecretFields :
                     resp.body[f] = IF Truthy(netsuite_client.creds[f])
                                    THEN Placeholder ELSE <<>>
                /\ resp.body.account_id = netsuite_client.creds.account_id
    /\ config_do_GET(env).configured
       => /\ \A f \in SecretFields : config_do_GET(env)[f] = Placeholder
          /\ config_do_GET(env).account_id = env.account_id

C8_Witness ==
    /\ resp.impl = "backend" /\ resp.h = "get_config" /\ resp.body.configured
    /\ resp.body.account_id = <<"A", "1">>
    /\ resp.body.consumer_key = <<>>
    /\ resp.body.token_secret = Placeholder

(* C9: after an accepted POST /config with body C the stored set is exactly
   C, the signing context is built from C, and the call of a query that
   follows is signed with C.  (As claimed; the application violates it.) *)
C9_ConfigReplacesWholesale ==
    lastOp = "config_ok"
    => /\ netsuite_client.creds = lastCfg
       /\ netsuite_client.netsuite = Config(lastCfg)
       /\ \A q \in Queries, p \in Params :
             LET pre == execute_suiteql_pre(netsuite_client, q, p)
             IN  pre.go => pre.calls[1].signed_with = Config(lastCfg)

(* C10: a test-auth request that directly follows an accepted POST /config
   with five non-empty credentials reaches the vendor, and when the vendor
   accepts the call the response has status success. *)
C10_ConfigThenTestAuth ==
    /\ resp.impl = "backend" /\ resp.h = "test_auth"
         /\ resp.after.ok /\ AllSet(resp.after.cfg)
       => /\ resp.ncalls = 1
          /\ resp.outcome.kind = "ok" => resp.body.status = "success"
    /\ lastOp = "config_ok" /\ AllSet(lastCfg) => netsuite_client.exists

C10_Witness ==
    /\ resp.impl = "backend" /\ resp.h = "test_auth"
    /\ resp.after.ok /\ AllSet(resp.after.cfg)
    /\ resp.outcome.kind = "ok"
    /\ resp.body.status = "success"

(* C11: a test-auth handler reports success only when it has issued the
   probe query to the vendor and the vendor accepted it; when the vendor
   rejects the call or cannot be reached it reports failure.  (As claimed;
   the serverless handler violates it.) *)
C11_TestAuthSuccessOnlyAfterProbe ==
    resp.h = "test_auth"
    => /\ resp.body.status = "success" => resp.ncalls = 1 /\ resp.outcome.kind = "ok"
       /\ resp.outcome.kind \in {"http", "timeout"} => resp.body.status = "error"

(* C12: when the token_id of the configured credential set contains "@",
   whatever its length (64 included), the validator and the
   validate-credentials handler both report the email-format issue for
   token_id and neither reports the token_id length issue. *)
C12_EmailIssueOverridesLength ==
    /\ resp.h = "validate_credentials" /\ resp.body.configured
    /\ Contains(netsuite_client.creds.token_id, "@")
    => /\ Contains(resp.body.issues, FormatIssue("token_id", "email"))
       /\ ~Contains(resp.body.issues, FormatIssue("token_id", "length"))
       /\ ~resp.body.valid
       /\ LET issues == NetSuiteClient_validate_credentials(netsuite_client.creds).issues
          IN  /\ Contains(issues, Issue("token_id", "email", 0))
              /\ \A i \in 1..Len(issues) :
                    issues[i].field = "token_id" => issues[i].kind # "length"

C12_Witness ==
    /\ resp.h = "validate_credentials" /\ resp.body.configured
    /\ Contains(netsuite_client.creds.token_id, "@")
    /\ Len(netsuite_client.creds.token_id) = TokenLength
    /\ Contains(resp.body.issues, FormatIssue("token_id", "email"))

WellFormedLengths(c) ==
    /\ Len(c.account_id) >= MinAccountLength
    /\ \A f \in SecretFields : Len(c[f]) = TokenLength

(* C13 as claimed: for a configured credential set whose account_id has at
   least 5 characters and whose four secrets have exactly 64 characters each,
   whatever the characters, validate-credentials returns valid = true and an
   empty issues list. *)
C13_WellFormedLengthsValid ==
    /\ resp.h = "validate_credentials" /\ resp.body.configured
    /\ WellFormedLengths(netsuite_client.creds)
    => resp.body.valid /\ resp.body.issues = <<>>

(* C13 as amended: for a configured credential set whose account_id has at
   least 5 characters, whose four secrets have exactly 64 characters each and
   whose token_id contains no "@", validate-credentials returns valid = true,
   an empty issues list and no troubleshooting steps, and the validator
   collects no issue. *)
C13_WellFormedNoEmailValid ==
    /\ resp.h = "validate_credentials" /\ resp.body.configured
    /\ WellFormedLengths(netsuite_client.creds)
    /\ ~Contains(netsuite_client.creds.token_id, "@")
    => /\ resp.body.valid
       /\ resp.body.issues = <<>>
       /\ ~resp.body.troubleshooting
       /\ NetSuiteClient_validate_credentials(netsuite_client.creds).issues = <<>>

C13_Witness ==
    /\ resp.h = "validate_credentials" /\ resp.body.configured
    /\ netsuite_client.creds.account_id = <<"A", "C", "C", "T", "1">>
    /\ netsuite_client.creds.token_id = Rep("t", TokenLength)
    /\ WellFormedLengths(netsuite_client.creds)
    /\ resp.body.valid

FieldOrder ==
    [account_id |-> 1, consumer_key |-> 2, consumer_secret |-> 3, token_id |-> 4,
     token_secret |-> 5]

(* C14: each per-field rule of the validator contributes zero or one issue
   string, so the issue list has at most five entries, at most one per field,
   in field order.  (As claimed; the validator violates it.) *)
C14_AtMostOneIssuePerField ==
    resp.h = "validate_credentials" /\ resp.body.configured
    => LET issues == NetSuiteClient_validate_credentials(netsuite_client.creds).issues
       IN  /\ Len(issues) <= Cardinality(Fields)
           /\ \A i, j \in 1..Len(issues) :
                 i < j => FieldOrder[issues[i].field] < FieldOrder[issues[j].field]

(* C15: validation is advisory.  For five non-empty credential values,
   however badly formatted, validation does not raise, POST /config is
   accepted and leaves a client holding those values, and a non-empty query
   that follows is forwarded to the vendor in exactly one outbound call. *)
C15_ValidationAdvisory ==
    /\ resp.impl = "backend" /\ resp.h = "update_config" /\ AllSet(resp.req)
       => /\ ~NetSuiteClient_validate_credentials(resp.req).raised
          /\ resp.status = 200
          /\ netsuite_client.exists
          /\ netsuite_client.creds = resp.req
    /\ netsuite_client.exists
       => \A q \in {x \in Queries : ~Blank(x)}, p \in Params :
             LET pre == execute_suiteql_pre(netsuite_client, q, p)
             IN  pre.go /\ Len(pre.calls) = 1
    /\ \A s \in Awaiting("query") : Len(pending[s].calls) = 1

C15_Witness ==
    /\ lastCfg # NoCreds /\ AllSet(lastCfg)
    /\ ~NetSuiteClient_validate_credentials(lastCfg).result
    /\ \E s \in Awaiting("query") :
          /\ pending[s].effective = lastCfg
          /\ Len(pending[s].calls) = 1
          /\ pending[s].calls[1].signed_with = Config(lastCfg)

(* C16: for every stored value of the four secrets, of any length, the
   preview GET /debug-auth returns shows a leading and a trailing fragment
   that together are strictly shorter than the secret.  (As claimed; the
   handler violates it for short secrets.) *)
C16_PreviewShorterThanSecret ==
    resp.h = "debug_auth" /\ resp.body.configured
    => \A f \in SecretFields :
          Truthy(netsuite_client.creds[f])
          => Len(resp.body[f]) - Len(Ellipsis) < Len(netsuite_client.creds[f])

(* C17: health reports netsuite_configured = true exactly when all five
   fields of the credential set in effect are non-empty, whatever their
   format.  (As claimed; the application violates it once POST /config has
   stored an empty field.) *)
C17_HealthIffAllFieldsSet ==
    resp.h = "health"
    => resp.body.netsuite_configured
       = AllSet(IF resp.impl = "backend" THEN Effective(netsuite_client, env) ELSE env)

(* C18: every query request, whatever its body and whatever the vendor's
   answer, ends in one response that is either the success envelope with
   status 200 or a structured error body with status 400, 401, 403 or 500; a
   success status is never sent without the success envelope, and no failure
   leaves the handler without a response body.  (As claimed; the serverless
   handler violates it.) *)
C18_OneStructuredResponse ==
    resp.h = "query"
    => /\ \/ resp.status = 200 /\ resp.body.success
          \/ resp.status \in {400, 401, 403, 500} /\ ~resp.body.success
       /\ resp.impl = "api" => resp.body.written

UpstreamFailure(r) ==
    r.h = "query" /\ r.status = 500 /\ r.outcome.kind \in {"http", "timeout"}

(* C19 as claimed: when a query fails with UpstreamError the error text
   returned to the client is the raw message of the vendor or the transport,
   with nothing added, removed or replaced. *)
C19_UpstreamTextVerbatim ==
    UpstreamFailure(resp) => resp.body.detail = ErrorStr(resp.outcome)

(* C19 as amended: when a query fails with UpstreamError the error text
   returned to the client ends with the raw message of the vendor or the
   transport, unaltered; the application puts the fixed label
   "NetSuite API error: " in front of it, the serverless handler returns the
   raw message alone. *)
C19_UpstreamTextCarriesRawMessage ==
    /\ resp.impl = "backend" /\ UpstreamFailure(resp)
       => resp.body.detail = <<"NetSuite", "API", "error:">> \o ErrorStr(resp.outcome)
    /\ \A o \in {x \in VendorOutcomes : x.kind # "ok"} :
          LET r == suiteql_do_POST(env, <<" ", "q", " ">>, NoneParams, o)
          IN  r.calls # <<>> => r.status = 500 /\ r.detail = ErrorStr(o)

C19_Witness ==
    /\ resp.impl = "backend" /\ UpstreamFailure(resp)
    /\ resp.outcome.kind = "timeout"
    /\ resp.body.detail = <<"NetSuite", "API", "error:", "timed", "out">>

(* The outbound call is the POST the claim describes for query q and
   parameters p. *)
ForwardsRequest(call, q, p) ==
    /\ call.endpoint = "/query/v1/suiteql"
    /\ call.prefer = "transient"
    /\ call.q = q
    /\ ~p.none => call.has_params /\ call.params = p.kv

(* C20: for every accepted query request with query q and parameters p the
   single outbound call is a POST to /query/v1/suiteql with the header
   Prefer: transient whose body has q equal to the submitted query and,
   whenever the client supplied parameters, params equal to p.  (As claimed;
   the handlers violate it.) *)
C20_CallCarriesQueryAndParameters ==
    /\ resp.impl = "api" /\ resp.h = "query" /\ resp.ncalls = 1
       => ForwardsRequest(resp.body.calls[1], resp.req.query, resp.req.parameters)
    /\ \A s \in Awaiting("query") :
          ForwardsRequest(pending[s].calls[1], pending[s].query, pending[s].parameters)

(* The handlers that never reach the vendor. *)
LocalHandlers ==
    {"health", "get_config", "update_config", "validate_credentials", "debug_auth",
     "sample_queries"}

(* C21: a request to health, GET /config, POST /config, validate-credentials,
   debug-auth or sample-queries makes no outbound call in any state; POST
   /config in particular is accepted without contacting the vendor, and
   sample-queries returns the same static list in every credential state. *)
C21_LocalHandlersMakeNoCall ==
    /\ resp.impl = "backend" /\ resp.h \in LocalHandlers
       => resp.ncalls = 0 /\ resp.outcome = NoOutcome
    /\ resp.h = "sample_queries" => resp.status = 200 /\ resp.body = get_sample_queries

C21_Witness ==
    /\ resp.impl = "backend" /\ resp.h = "update_config"
    /\ resp.status = 200 /\ AllSet(resp.req)
    /\ netsuite_client.creds = resp.req
    /\ resp.ncalls = 0
    /\ \A s \in Slots : pending[s] = Idle

UpperChars == {"A", "S"}

(* host is account with every underscore replaced by a hyphen, every upper
   case letter by its lower case letter, and every other character kept. *)
NormalizedFrom(host, account) ==
    /\ Len(host) = Len(account)
    /\ \A i \in 1..Len(account) :
          /\ account[i] = "_" => host[i] = "-"
          /\ account[i] = "A" => host[i] = "a"
          /\ account[i] = "S" => host[i] = "s"
          /\ account[i] \notin UpperChars \cup {"_"} => host[i] = account[i]

HostOf(u) == SubSeq(u, 2, Len(u) - 2)

(* C22: the vendor host name is the account_id in lower case with every
   underscore replaced by a hyphen, for every account_id; the query URL is
   https://<host>.suitetalk.api.netsuite.com/services/rest/query/v1/suiteql;
   and normalising a normalised account_id leaves it unchanged. *)
C22_HostNameNormalized ==
    /\ resp.h = "query_url"
       => /\ Head(resp.body.url) = "https://"
          /\ SubSeq(resp.body.url, Len(resp.body.url) - 1, Len(resp.body.url))
             = <<".suitetalk.api.netsuite.com", "/services/rest/query/v1/suiteql">>
          /\ NormalizedFrom(HostOf(resp.body.url), resp.req.account_id)
          /\ account_id_clean(HostOf(resp.body.url)) = HostOf(resp.body.url)
    /\ resp.h = "test_basic_auth"
       => \A k \in 1..Len(resp.body.endpoints) :
             /\ NormalizedFrom(HostOf(resp.body.endpoints[k]), resp.req.account_id)
             /\ account_id_clean(HostOf(resp.body.endpoints[k]))
                = HostOf(resp.body.endpoints[k])

C22_Witness ==
    /\ resp.h = "query_url"
    /\ resp.req.account_id = <<"A", "_", "S">>
    /\ resp.body.url = <<"https://", "a", "-", "s", ".suitetalk.api.netsuite.com",
                         "/services/rest/query/v1/suiteql">>

(* C23: only an accepted POST /config changes the stored credential set and
   the cached signing client; every step of a query, test-auth, health,
   GET /config, validate-credentials, debug-auth or sample-queries request,
   whether it succeeds or fails, leaves both unchanged. *)
C23_OnlyPostConfigChangesClient ==
    [][netsuite_client' # netsuite_client
       => resp'.h = "update_config" /\ resp'.status = 200]_vars

C23_Witness ==
    /\ resp.impl = "backend" /\ resp.h = "test_auth"
    /\ resp.outcome.kind = "http" /\ resp.body.status = "error"
    /\ lastCfg # NoCreds
    /\ netsuite_client.creds = lastCfg
    /\ netsuite_client.netsuite = Config(lastCfg)

(* The complete credential sets the claim allows a call to be signed with:
   the startup set and the POST /config bodies. *)
WholeSets == {c \in {env} \cup ConfigBodies : AllSet(c)}

(* C24: under every interleaving of POST /config requests with in-flight
   query and test-auth requests, every outbound call is signed with a context
   built from exactly one complete credential set, the startup set or one
   POST /config body, and once no request is in flight the stored fields and
   the cached signing client both correspond to the last accepted POST
   /config body.  (As claimed; the application violates it.) *)
C24_CallsSignedWithOneWholeSet ==
    /\ \A s \in Slots :
          pending[s] # Idle
          => \E c \in WholeSets : pending[s].calls[1].signed_with = Config(c)
    /\ (\A s \in Slots : pending[s] = Idle) /\ lastCfg # NoCreds
       => /\ netsuite_client.creds = lastCfg
          /\ netsuite_client.netsuite = Config(lastCfg)

AuthMarker(msg) == Contains(msg, "401") \/ Contains(msg, "INVALID_LOGIN")

PermissionMarker(msg) == Contains(msg, "403") \/ Contains(msg, "Forbidden")

(* C25: the classification of a vendor failure tests the authentication
   markers first: a message with an authentication marker is answered with
   401 even when it also carries a permission marker, 403 is answered exactly
   when a permission marker is present and no authentication marker is, and
   every failure is answered with one of 401, 403 and 500. *)
C25_AuthMarkersFirst ==
    resp.impl = "backend" /\ resp.h = "query" /\ resp.outcome.kind \in {"http", "timeout"}
    => LET msg == ErrorStr(resp.outcome)
       IN  /\ resp.status \in {401, 403, 500}
           /\ AuthMarker(msg) => resp.status = 401
           /\ resp.status = 403 <=> PermissionMarker(msg) /\ ~AuthMarker(msg)
           /\ resp.status = 500 <=> ~PermissionMarker(msg) /\ ~AuthMarker(msg)

C25_Witness ==
    /\ resp.impl = "backend" /\ resp.h = "query"
    /\ resp.outcome.kind = "http"
    /\ AuthMarker(ErrorStr(resp.outcome)) /\ PermissionMarker(ErrorStr(resp.outcome))
    /\ resp.status = 401
    /\ resp.body.detail = AuthDetail

(* C26: GET /test-auth of the application never answers with an HTTP error
   status: when no client is configured or the probe fails, whatever the
   failure, the response is a normal one whose status field is "error" and
   which carries the error text; the status field is "success" only when the
   probe query returned without raising. *)
C26_TestAuthNeverHttpError ==
    resp.impl = "backend" /\ resp.h = "test_auth"
    => /\ resp.status = 200
       /\ resp.body.status \in {"success", "error"}
       /\ resp.body.status = "success" <=> resp.outcome.kind = "ok"
       /\ resp.body.status = "error" => Truthy(resp.body.error)
       /\ resp.outcome.kind \in {"http", "timeout"}
          => resp.body.error
             = HTTPExceptionStr(NetSuiteClient_execute_suiteql(resp.outcome))

C26_Witness ==
    /\ resp.impl = "backend" /\ resp.h = "test_auth"
    /\ resp.outcome.kind = "http" /\ resp.outcome.status = 401
    /\ resp.status = 200
    /\ resp.body.status = "error"
    /\ resp.body.error = <<"401", ":">> \o AuthDetail

NotConfiguredDetail == <<"NetSuite", "client", "not", "configured">>

(* C27: being configured is monotonic within a process: once the client
   object exists, no later step, a POST /config with empty or malformed
   fields and a failing query included, removes it, makes health report
   netsuite_configured = false, or makes the query handler answer
   not-configured. *)
C27_ConfiguredIsMonotonic ==
    [][netsuite_client.exists
       => /\ netsuite_client'.exists
          /\ resp'.h = "health" => resp'.body.netsuite_configured
          /\ resp'.h = "query" => resp'.body.detail # NotConfiguredDetail]_vars

C27_Witness ==
    /\ resp.impl = "backend" /\ resp.h = "health"
    /\ resp.body.netsuite_configured
    /\ lastCfg # NoCreds /\ ~AllSet(lastCfg)
    /\ netsuite_client.creds = lastCfg

(* C28: in every validate-credentials response for a configured client the
   valid flag agrees with the issue list: valid is true exactly when issues
   is empty, and troubleshooting is empty exactly when valid is true.  (As
   claimed; the application violates it once an empty field is stored.) *)
C28_ValidIffNoIssues ==
    resp.h = "validate_credentials" /\ resp.body.configured
    => /\ resp.body.valid <=> resp.body.issues = <<>>
       /\ ~resp.body.troubleshooting <=> resp.body.valid

(* The request body with each empty field taken from the environment. *)
FilledFrom(req, e) == [f \in Fields |-> IF Truthy(req[f]) THEN req[f] ELSE e[f]]

(* C29: a POST /config that is rejected with 400 leaves the state unchanged:
   the proxy was not configured and stays so (health reports false, a query
   is answered not-configured), and a configured proxy keeps its fields and
   its signing client.  When no client exists an empty request field is
   filled from the environment, and the request is rejected only if some
   field is empty in the request and in the environment. *)
C29_RejectedConfigChangesNothing ==
    [][resp'.impl = "backend" /\ resp'.h = "update_config"
       => /\ resp'.status = 400
             => /\ netsuite_client' = netsuite_client
                /\ ~netsuite_client.exists
                /\ ~health_check(netsuite_client').netsuite_configured
                /\ \A q \in Queries, p \in Params :
                      LET pre == execute_suiteql_pre(netsuite_client', q, p)
                      IN  ~pre.go /\ pre.status = 500 /\ pre.detail = NotConfiguredDetail
          /\ ~netsuite_client.exists
             => /\ resp'.status = 400 <=> ~AllSet(FilledFrom(resp'.req, env))
                /\ resp'.status = 200
                   => netsuite_client'.creds = FilledFrom(resp'.req, env)]_vars

C29_Witness ==
    /\ resp.impl = "backend" /\ resp.h = "update_config"
    /\ resp.status = 400
    /\ Truthy(env.account_id)
    /\ ~Truthy(env.consumer_key) /\ ~Truthy(resp.req.consumer_key)
    /\ Truthy(resp.req.token_id)
    /\ ~netsuite_client.exists

====
